---------------------------- MODULE Spec2Model ----------------------------
(***************************************************************************)
(* State-machine model of the article generator (src/app.py) and its RAG   *)
(* helpers (src/rag_utils.py).                                              *)
(*                                                                          *)
(* One Streamlit session: every user interaction reruns the script of       *)
(* app.py from top to bottom against st.session_state.  A script run is     *)
(* modelled by the program counter pc:                                      *)
(*   idle -> [list -> catalog -> retrieve -> prompt -> generate ->         *)
(*   sentiment -> return] -> idle,   idle -> rerun -> idle                  *)
(* Libraries (Ollama, FAISS, the text splitter, PyPDF2, TextBlob) are the   *)
(* environment: each call picks one of the outcomes the library can give.   *)
(***************************************************************************)
EXTENDS Integers, Sequences, FiniteSets, TLC

VARIABLES
    vector_store,        \* st.session_state.vector_store
    chat_history,        \* st.session_state.chat_history
    uploaded_files,      \* value of the st.file_uploader widget
    build_report,        \* st.success / st.error shown by the upload handler
    clear_clicked,       \* st.button("Clear History") of this script run
    submit,              \* st.button("Generate Article") of this script run
    input_text,          \* st.text_area value
    writing_style,       \* st.selectbox value
    use_rag,             \* st.checkbox value
    pc,                  \* position of the script run
    available_models,    \* getLLamaresponse local: names in ollama.list()
    context,             \* getLLamaresponse local
    sources,             \* getLLamaresponse local
    prompt,              \* getLLamaresponse local
    response,            \* getLLamaresponse local
    blob,                \* TextBlob(text).sentiment of the text being analysed
    sentiment_analysis,  \* result of analyze_sentiment
    ret,                 \* value returned by getLLamaresponse
    report,              \* st.error / st.warning shown for the generation run
    exc,                 \* step whose exception the report carries
    nList,               \* ollama.list() calls issued in this run
    nRetrieve,           \* get_rag_response calls issued in this run
    nGenerate,           \* ollama.generate calls issued in this run
    h0,                  \* chat_history as it was when the run was entered
    last_batch           \* batch the index now held was built from

vars == << vector_store, chat_history, uploaded_files, build_report,
           clear_clicked, submit, input_text, writing_style, use_rag, pc,
           available_models, context, sources, prompt, response, blob,
           sentiment_analysis, ret, report, exc, nList, nRetrieve, nGenerate,
           h0, last_batch >>

session == << vector_store, chat_history, last_batch >>
widgets == << uploaded_files, clear_clicked, submit, input_text,
              writing_style, use_rag >>
locals  == << available_models, context, sources, prompt, response, blob,
              sentiment_analysis, ret, report, exc, nList, nRetrieve,
              nGenerate, h0 >>

----------------------------------------------------------------------------
(* Bounds of the model *)

MaxFiles == 2      \* files in one uploaded batch
MaxHistory == 2    \* entries the history holds before Generate is disabled

----------------------------------------------------------------------------
(* Program constants *)

TopK == 3              \* search_kwargs={'k': 3}
chunk_size == 1000     \* RecursiveCharacterTextSplitter(chunk_size=1000
chunk_overlap == 200   \*                                chunk_overlap=200
DefaultWords == 500    \* st.number_input(..., value=500)
ObjectiveBelow == 300  \* subjectivity < 0.3, scores in thousandths
SubjectiveAbove == 700 \* subjectivity > 0.7, scores in thousandths

----------------------------------------------------------------------------
(* Uploaded files *)

\* The files the user can pick.  readable is FALSE for a malformed PDF (or
\* for bytes that are not UTF-8); chars is the length of the extracted text,
\* blank tells whether text.strip() is empty.
Files ==
    { [name |-> "a.txt", readable |-> TRUE,  chars |-> 800,  blank |-> FALSE],
      [name |-> "b.pdf", readable |-> TRUE,  chars |-> 1700, blank |-> FALSE],
      [name |-> "c.pdf", readable |-> FALSE, chars |-> 0,    blank |-> TRUE],
      [name |-> "d.txt", readable |-> TRUE,  chars |-> 3,    blank |-> TRUE] }

\* os.path.splitext(uploaded_file.name)[1].lower()
file_extension(name) ==
    IF name \in {"b.pdf", "c.pdf"} THEN ".pdf" ELSE ".txt"

RECURSIVE DistinctNames(_)
DistinctNames(fs) ==
    IF fs = << >> THEN TRUE
    ELSE /\ \A i \in 2..Len(fs) : fs[i].name # fs[1].name
         /\ DistinctNames(Tail(fs))

\* what st.file_uploader(accept_multiple_files=True) can hold
Batches == { fs \in UNION { [1..n -> Files] : n \in 0..MaxFiles } :
                 DistinctNames(fs) }

----------------------------------------------------------------------------
(* rag_utils.create_vector_store *)

NoneStore == [built |-> FALSE, texts |-> << >>]

\* Document(page_content=text, metadata={"source": name, "type": ext})
Document(f) ==
    [source |-> f.name, type |-> file_extension(f.name), chars |-> f.chars]

\* process_pdf / open(...).read(): the text of the file, or an exception
ReadText(f) ==
    IF f.readable THEN [raised |-> FALSE, blank |-> f.blank]
    ELSE [raised |-> TRUE, blank |-> TRUE]

RECURSIVE LoadFrom(_, _, _)

\* the per-file error is reported and the remaining files are still loaded
FileErrorSkipped(files, i, documents) ==
    LoadFrom(files, i + 1, documents)

\* except Exception as e: raise Exception(f"Error processing {name}: ...")
FileError(files, i, documents) ==
    [raised |-> TRUE, file |-> files[i].name, documents |-> documents,
     started |-> i]

\* the for loop over uploaded_files, from file i on; started counts the
\* files whose processing has begun when the loop is left
LoadFrom(files, i, documents) ==
    IF i > Len(files)
    THEN [raised |-> FALSE, file |-> "", documents |-> documents,
          started |-> Len(files)]
    ELSE LET text == ReadText(files[i])
         IN  IF text.raised
             THEN FileError(files, i, documents)
             ELSE LoadFrom(files, i + 1,
                           IF ~text.blank
                           THEN Append(documents, Document(files[i]))
                           ELSE documents)

\* chunks of a text of n characters: one when it fits chunk_size, else one
\* more for every further (chunk_size - chunk_overlap) characters
NumChunks(n) ==
    IF n <= chunk_size THEN 1
    ELSE 1 + ((n - chunk_size) + (chunk_size - chunk_overlap) - 1)
                 \div (chunk_size - chunk_overlap)

\* the chunks of one document, in order, each carrying its metadata
ChunksOf(doc) ==
    [j \in 1..NumChunks(doc.chars) |-> [source |-> doc.source, idx |-> j]]

RECURSIVE split_documents(_)
split_documents(documents) ==
    IF documents = << >> THEN << >>
    ELSE ChunksOf(Head(documents)) \o split_documents(Tail(documents))

\* embedOK: whether HuggingFaceEmbeddings / FAISS.from_documents succeed
create_vector_store(files, embedOK) ==
    LET loaded == LoadFrom(files, 1, << >>)
    IN  IF loaded.raised
        THEN [ok |-> FALSE, error |-> "Error processing file",
              file |-> loaded.file, started |-> loaded.started,
              store |-> NoneStore]
        ELSE IF loaded.documents = << >>
        THEN [ok |-> FALSE, error |-> "No valid documents were processed",
              file |-> "", started |-> loaded.started, store |-> NoneStore]
        ELSE IF ~embedOK
        THEN [ok |-> FALSE, error |-> "embedding failed",
              file |-> "", started |-> loaded.started, store |-> NoneStore]
        ELSE [ok |-> TRUE, error |-> "", file |-> "",
              started |-> loaded.started,
              store |-> [built |-> TRUE,
                         texts |-> split_documents(loaded.documents)]]

----------------------------------------------------------------------------
(* app.py: the document upload handler, lines 140-147 *)

NoReport == [kind |-> "none", error |-> "", file |-> "", started |-> 0]

\* the old index is kept and the new chunks are added to it
StoreMerged(old, new) ==
    [built |-> TRUE, texts |-> old.texts \o new.texts]

\* st.session_state.vector_store = create_vector_store(uploaded_files)
StoreAfterBuild(old, new) ==
    new

\* the index held before the failed build is kept
StoreKept(old) ==
    old

\* except Exception as e: ... st.session_state.vector_store = None
StoreAfterFailedBuild(old) ==
    NoneStore

\* if uploaded_files: try: ... except Exception as e: ...
UploadHandler(files) ==
    IF files # << >>
    THEN \E embedOK \in BOOLEAN :
           LET r == create_vector_store(files, embedOK)
           IN  IF r.ok
               THEN /\ vector_store' = StoreAfterBuild(vector_store, r.store)
                    /\ last_batch' = files
                    /\ build_report' = [kind |-> "success", error |-> "",
                                        file |-> "", started |-> r.started]
               ELSE /\ vector_store' = StoreAfterFailedBuild(vector_store)
                    /\ last_batch' = IF vector_store'.built
                                     THEN last_batch ELSE << >>
                    /\ build_report' = [kind |-> "error", error |-> r.error,
                                        file |-> r.file, started |-> r.started]
    ELSE /\ build_report' = NoReport
         /\ UNCHANGED << vector_store, last_batch >>

----------------------------------------------------------------------------
(* rag_utils.analyze_sentiment; scores are in thousandths *)

\* polarity in [-1, 1] and subjectivity in [0, 1], every fiftieth of the
\* range and every thousandth next to the thresholds
BlobDomain ==
    [polarity : { p \in -1000..1000 : p % 50 = 0 \/ (p >= -5 /\ p <= 5) },
     subjectivity : { q \in 0..1000 : \/ q % 50 = 0
                                      \/ (q >= 295 /\ q <= 305)
                                      \/ (q >= 695 /\ q <= 705) }]

\* the scores TextBlob gives the generated article in a session run
BlobSamples ==
    { [polarity |-> 125, subjectivity |-> 700] }

\* round(x, 2): to the nearest hundredth, a tie to the even hundredth
Round2(x) ==
    LET lo == (x \div 10) * 10
        r  == x - lo
    IN  IF r < 5 THEN lo
        ELSE IF r > 5 THEN lo + 10
        ELSE IF (lo \div 10) % 2 = 0 THEN lo ELSE lo + 10

\* polarity = 0 is labelled like a positive polarity
SentimentLabelNoNeutral(polarity) ==
    IF polarity >= 0 THEN "Positive" ELSE "Negative"

SentimentLabel(polarity) ==
    IF polarity > 0 THEN "Positive"
    ELSE IF polarity < 0 THEN "Negative"
    ELSE "Neutral"

ToneLabel(subjectivity) ==
    IF subjectivity < ObjectiveBelow THEN "Objective"
    ELSE IF subjectivity > SubjectiveAbove THEN "Subjective"
    ELSE "Balanced"

analyze_sentiment(b) ==
    [sentiment |-> SentimentLabel(b.polarity),
     tone |-> ToneLabel(b.subjectivity),
     polarity |-> Round2(b.polarity),
     subjectivity |-> Round2(b.subjectivity)]

NoSentiment == [sentiment |-> "", tone |-> "", polarity |-> 0,
                subjectivity |-> 0]
NoBlob == [polarity |-> 0, subjectivity |-> 0]

----------------------------------------------------------------------------
(* rag_utils.get_rag_response and app.generate_prompt *)

\* the rankings a similarity search can return: the min(k, n) nearest chunks
\* of the store, nearest first
similarity_search(texts, k) ==
    LET m == IF Len(texts) < k THEN Len(texts) ELSE k
    IN  { [i \in 1..m |-> texts[order[i]]] :
            order \in { o \in [1..m -> 1..Len(texts)] :
                          \A i, j \in 1..m : i # j => o[i] # o[j] } }

\* [doc.metadata['source'] for doc in rag_response['source_documents']]
SourcesOf(docs) ==
    [i \in 1..Len(docs) |-> docs[i].source]

\* keys of style_prompts
StylePrompts == {"Academic", "Technical", "Conversational", "Journalistic"}

\* the style a run is asked for: the selectbox offers the keys of
\* style_prompts only, and index=2 preselects this one
StyleInputs == {"Conversational"}

\* st.text_area: left empty, or a topic
TopicInputs == {"", "RAG"}

\* style_prompts[writing_style].format(...): a KeyError for an unknown style
generate_prompt(ctx, text, no_words, style) ==
    IF style \in StylePrompts
    THEN [raised |-> FALSE, template |-> style, context |-> ctx,
          input_text |-> text, no_words |-> no_words]
    ELSE [raised |-> TRUE, template |-> "", context |-> "",
          input_text |-> "", no_words |-> 0]

NoPrompt == [raised |-> FALSE, template |-> "", context |-> "",
             input_text |-> "", no_words |-> 0]

\* the catalogs ollama.list() can report
Catalogs == { {}, {"mistral:latest"}, {"llama3.2:latest", "mistral:latest"} }

----------------------------------------------------------------------------
(* app.py: the script run around the generation *)

LocalsInit ==
    /\ available_models = {}
    /\ context = ""
    /\ sources = << >>
    /\ prompt = NoPrompt
    /\ response = ""
    /\ blob = NoBlob
    /\ sentiment_analysis = NoSentiment
    /\ ret = "pending"
    /\ report = ""
    /\ exc = ""
    /\ nList = 0
    /\ nRetrieve = 0
    /\ nGenerate = 0
    /\ h0 = << >>

\* if 'vector_store' not in st.session_state: ... = None
\* if 'chat_history' not in st.session_state: ... = []
Init ==
    /\ vector_store = NoneStore
    /\ chat_history = << >>
    /\ last_batch = << >>
    /\ uploaded_files = << >>
    /\ build_report = NoReport
    /\ clear_clicked = FALSE
    /\ submit = FALSE
    /\ input_text = ""
    /\ writing_style = "Conversational"
    /\ use_rag = FALSE
    /\ pc = "idle"
    /\ LocalsInit

\* A script run is sequential and nothing else touches the session while it
\* runs, so the part of the script before getLLamaresponse is one step.

ResetWidgets ==
    /\ submit' = FALSE
    /\ input_text' = ""
    /\ writing_style' = "Conversational"
    /\ use_rag' = FALSE

\* the user adds, replaces or removes files in the uploader: the script
\* reruns with the new batch and no button pressed
ChangeUpload ==
    /\ pc = "idle"
    /\ \E fs \in Batches :
         /\ fs # uploaded_files
         /\ uploaded_files' = fs
         /\ UploadHandler(fs)
    /\ pc' = "idle"
    /\ UNCHANGED << chat_history, clear_clicked, submit, input_text,
                    writing_style, use_rag, locals >>

\* the user edits another widget (topic, word count, style, checkbox): the
\* script reruns with no button pressed
EditWidget ==
    /\ pc = "idle"
    /\ UploadHandler(uploaded_files)
    /\ pc' = "idle"
    /\ UNCHANGED << chat_history, widgets, locals >>

\* the user presses "Clear History":
\* if st.button("Clear History"): chat_history = []; st.experimental_rerun()
ClearHistory ==
    /\ pc = "idle"
    /\ UploadHandler(uploaded_files)
    /\ chat_history' = << >>
    /\ pc' = "rerun"
    /\ UNCHANGED << widgets, locals >>

\* the script run st.experimental_rerun() starts: no button is pressed in it
Rerun ==
    /\ pc = "rerun"
    /\ UploadHandler(uploaded_files)
    /\ pc' = "idle"
    /\ UNCHANGED << chat_history, widgets, locals >>

\* the user presses "Generate Article":
\* if submit: if not input_text.strip(): st.warning(...) else: getLLamaresponse
Submit ==
    /\ pc = "idle"
    /\ Len(chat_history) < MaxHistory
    /\ UploadHandler(uploaded_files)
    /\ \E topic \in TopicInputs, style \in StyleInputs, rag \in BOOLEAN :
         IF topic # ""
         THEN /\ submit' = TRUE
              /\ input_text' = topic
              /\ writing_style' = style
              /\ use_rag' = rag
              /\ h0' = chat_history
              /\ pc' = "list"
         ELSE /\ ResetWidgets
              /\ pc' = "idle"
              /\ UNCHANGED h0
    /\ UNCHANGED << chat_history, uploaded_files, clear_clicked,
                    available_models, context, sources, prompt, response, blob, sentiment_analysis, ret,
                    report, exc, nList, nRetrieve, nGenerate >>

\* st.error(msg); return None, None, None
Fail(msg, step) ==
    /\ report' = msg
    /\ exc' = step
    /\ ret' = "None"
    /\ pc' = "return"

\* if response: show the article, else st.warning("Failed to generate ...")
ShowResult ==
    /\ pc = "return"
    /\ pc' = "idle"
    /\ ResetWidgets
    /\ available_models' = {}
    /\ context' = ""
    /\ sources' = << >>
    /\ prompt' = NoPrompt
    /\ response' = ""
    /\ blob' = NoBlob
    /\ sentiment_analysis' = NoSentiment
    /\ ret' = "pending"
    /\ report' = ""
    /\ exc' = ""
    /\ nList' = 0
    /\ nRetrieve' = 0
    /\ nGenerate' = 0
    /\ h0' = << >>
    /\ UNCHANGED << session, build_report, uploaded_files, clear_clicked >>

----------------------------------------------------------------------------
(* app.py: getLLamaresponse, lines 51-116 *)

\* what no step of getLLamaresponse assigns
outside == << vector_store, last_batch, build_report, widgets, h0 >>

\* try: ollama.list()  except ConnectionRefusedError / except Exception
CheckServer ==
    /\ pc = "list"
    /\ nList' = nList + 1
    /\ \E outcome \in {"ok", "ConnectionRefusedError", "Exception"} :
         IF outcome = "ok"
         THEN pc' = "catalog" /\ UNCHANGED << report, exc, ret >>
         ELSE IF outcome = "ConnectionRefusedError"
         THEN Fail("Ollama server connection error", "list")
         ELSE Fail("Ollama server error", "list")
    /\ UNCHANGED << outside, available_models, chat_history, context, sources, prompt, response,
                    blob, sentiment_analysis, nRetrieve, nGenerate >>

\* the run goes on although the model is missing from the catalog
CheckModelIgnored ==
    /\ pc = "catalog"
    /\ nList' = nList + 1
    /\ \E raised \in BOOLEAN, models \in Catalogs :
         IF raised
         THEN Fail("An error occurred", "catalog") /\ UNCHANGED available_models
         ELSE /\ available_models' = models
              /\ pc' = "retrieve"
              /\ UNCHANGED << report, exc, ret >>
    /\ UNCHANGED << outside, chat_history, context, sources, prompt, response,
                    blob, sentiment_analysis, nRetrieve, nGenerate >>

\* available_models = ollama.list(); if not any(name == 'llama3.2:latest')
CheckModel ==
    /\ pc = "catalog"
    /\ nList' = nList + 1
    /\ \E raised \in BOOLEAN, models \in Catalogs :
         IF raised
         THEN Fail("An error occurred", "catalog") /\ UNCHANGED available_models
         ELSE IF "llama3.2:latest" \notin models
         THEN /\ Fail("llama3.2:latest model not found", "")
              /\ available_models' = models
         ELSE /\ available_models' = models
              /\ pc' = "retrieve"
              /\ UNCHANGED << report, exc, ret >>
    /\ UNCHANGED << outside, chat_history, context, sources, prompt, response,
                    blob, sentiment_analysis, nRetrieve, nGenerate >>

\* get_rag_response is called whenever use_rag is set; without an index
\* vector_store.as_retriever raises
RetrieveUnguarded ==
    /\ pc = "retrieve"
    /\ IF use_rag
       THEN /\ nRetrieve' = nRetrieve + 1
            /\ \/ /\ Fail("An error occurred", "retrieve")
                  /\ UNCHANGED << context, sources >>
               \/ /\ vector_store.built
                  /\ \E docs \in similarity_search(vector_store.texts, TopK) :
                       /\ context' = "answer"
                       /\ sources' = SourcesOf(docs)
                  /\ pc' = "prompt"
                  /\ UNCHANGED << report, exc, ret >>
       ELSE /\ context' = ""
            /\ sources' = << >>
            /\ pc' = "prompt"
            /\ UNCHANGED << nRetrieve, report, exc, ret >>
    /\ UNCHANGED << outside, available_models, chat_history, prompt, response, blob,
                    sentiment_analysis, nList, nGenerate >>

\* if use_rag and st.session_state.vector_store: ... else: context = ""
Retrieve ==
    /\ pc = "retrieve"
    /\ IF use_rag /\ vector_store.built
       THEN /\ nRetrieve' = nRetrieve + 1
            /\ \/ /\ Fail("An error occurred", "retrieve")
                  /\ UNCHANGED << context, sources >>
               \/ /\ \E docs \in similarity_search(vector_store.texts, TopK) :
                       /\ context' = "answer"
                       /\ sources' = SourcesOf(docs)
                  /\ pc' = "prompt"
                  /\ UNCHANGED << report, exc, ret >>
       ELSE /\ context' = ""
            /\ sources' = << >>
            /\ pc' = "prompt"
            /\ UNCHANGED << nRetrieve, report, exc, ret >>
    /\ UNCHANGED << outside, available_models, chat_history, prompt, response, blob,
                    sentiment_analysis, nList, nGenerate >>

\* prompt = generate_prompt(context, input_text, no_words, writing_style)
ComposePrompt ==
    /\ pc = "prompt"
    /\ LET p == generate_prompt(context, input_text, DefaultWords, writing_style)
       IN  IF p.raised
           THEN Fail("An error occurred", "prompt") /\ UNCHANGED prompt
           ELSE /\ prompt' = p
                /\ pc' = "generate"
                /\ UNCHANGED << report, exc, ret >>
    /\ UNCHANGED << outside, available_models, chat_history, context, sources, response, blob,
                    sentiment_analysis, nList, nRetrieve, nGenerate >>

\* response = ollama.generate(model=..., prompt=prompt, options=...)
Generate ==
    /\ pc = "generate"
    /\ nGenerate' = nGenerate + 1
    /\ \/ Fail("An error occurred", "generate") /\ UNCHANGED response
       \/ /\ response' = "article"
          /\ pc' = "sentiment"
          /\ UNCHANGED << report, exc, ret >>
    /\ UNCHANGED << outside, available_models, chat_history, context, sources, prompt, blob,
                    sentiment_analysis, nList, nRetrieve >>

\* the dict appended to chat_history; the timestamp (wall clock) is left
\* out, and an empty sources list stands for the None the code stores
HistoryEntry(text, style, no_words, output, sentiment, srcs) ==
    [input |-> text, style |-> style, words |-> no_words, output |-> output,
     sentiment |-> sentiment, sources |-> srcs]

\* the history is overwritten with the new entry
OverwriteWithEntry(history, entry) ==
    << entry >>

\* st.session_state.chat_history.append({...})
AppendEntry(history, entry) ==
    Append(history, entry)

\* the entry is stored before the sentiment is analysed and completed after
StoreThenAnalyze ==
    /\ pc = "sentiment"
    /\ \/ /\ Fail("An error occurred", "sentiment")
          /\ chat_history' = AppendEntry(chat_history,
                 HistoryEntry(input_text, writing_style, DefaultWords,
                              response, NoSentiment, sources))
          /\ UNCHANGED << blob, sentiment_analysis >>
       \/ \E b \in BlobSamples :
            /\ blob' = b
            /\ sentiment_analysis' = analyze_sentiment(b)
            /\ chat_history' = AppendEntry(chat_history,
                   HistoryEntry(input_text, writing_style, DefaultWords,
                                response, sentiment_analysis', sources))
            /\ ret' = "result"
            /\ pc' = "return"
            /\ UNCHANGED << report, exc >>
    /\ UNCHANGED << outside, available_models, context, sources, prompt, response, nList,
                    nRetrieve, nGenerate >>

\* sentiment_analysis = analyze_sentiment(response['response']);
\* chat_history.append({...}); return response, sources, sentiment_analysis
AnalyzeAndStore ==
    /\ pc = "sentiment"
    /\ \/ /\ Fail("An error occurred", "sentiment")
          /\ UNCHANGED << chat_history, blob, sentiment_analysis >>
       \/ \E b \in BlobSamples :
            /\ blob' = b
            /\ sentiment_analysis' = analyze_sentiment(b)
            /\ chat_history' = AppendEntry(chat_history,
                   HistoryEntry(input_text, writing_style, DefaultWords,
                                response, sentiment_analysis', sources))
            /\ ret' = "result"
            /\ pc' = "return"
            /\ UNCHANGED << report, exc >>
    /\ UNCHANGED << outside, available_models, context, sources, prompt, response, nList,
                    nRetrieve, nGenerate >>

----------------------------------------------------------------------------
(* The session *)

Next ==
    \/ ChangeUpload
    \/ EditWidget
    \/ ClearHistory
    \/ Rerun
    \/ Submit
    \/ CheckServer
    \/ CheckModel
    \/ Retrieve
    \/ ComposePrompt
    \/ Generate
    \/ AnalyzeAndStore
    \/ ShowResult

Spec == Init /\ [][Next]_vars

----------------------------------------------------------------------------
(* analyze_sentiment on its own, over the whole score domain *)

InitSentiment ==
    /\ vector_store = NoneStore
    /\ chat_history = << >>
    /\ last_batch = << >>
    /\ uploaded_files = << >>
    /\ build_report = NoReport
    /\ clear_clicked = FALSE
    /\ submit = FALSE
    /\ input_text = ""
    /\ writing_style = "Conversational"
    /\ use_rag = FALSE
    /\ pc = "analyze"
    /\ available_models = {}
    /\ context = ""
    /\ sources = << >>
    /\ prompt = NoPrompt
    /\ response = ""
    /\ blob \in BlobDomain
    /\ sentiment_analysis = NoSentiment
    /\ ret = "pending"
    /\ report = ""
    /\ exc = ""
    /\ nList = 0
    /\ nRetrieve = 0
    /\ nGenerate = 0
    /\ h0 = << >>

Analyze ==
    /\ pc = "analyze"
    /\ sentiment_analysis' = analyze_sentiment(blob)
    /\ pc' = "analyzed"
    /\ UNCHANGED << session, widgets, build_report, available_models,
                    context, sources, prompt,
                    response, blob, ret, report, exc, nList, nRetrieve,
                    nGenerate, h0 >>

NextSentiment == Analyze

SpecSentiment == InitSentiment /\ [][NextSentiment]_vars

----------------------------------------------------------------------------
(* Properties *)

RunSteps == {"list", "catalog", "retrieve", "prompt", "generate",
             "sentiment", "return"}

NamesOf(fs) == { fs[i].name : i \in 1..Len(fs) }

Elements(seq) == { seq[i] : i \in 1..Len(seq) }

NoDuplicates(seq) ==
    \A i, j \in 1..Len(seq) : i # j => seq[i] # seq[j]

IsValidFile(f) == f.readable /\ ~f.blank

HasFailingFile(fs) == \E i \in 1..Len(fs) : ~fs[i].readable

HasValidFile(fs) == \E i \in 1..Len(fs) : IsValidFile(fs[i])

FirstFailing(fs) ==
    CHOOSE i \in 1..Len(fs) :
        ~fs[i].readable /\ \A j \in 1..(i - 1) : fs[j].readable

\* the chunks an index built from exactly the valid files of fs holds:
\* chunk k > 1 of a text exists when the text runs past the first k - 1 chunks
ExpectedChunks(fs) ==
    UNION { { [source |-> g.name, idx |-> k] :
                k \in { n \in 1..(1 + g.chars \div (chunk_size - chunk_overlap)) :
                          \/ n = 1
                          \/ chunk_size + (n - 2) * (chunk_size - chunk_overlap)
                                 < g.chars } } :
            g \in { f \in Elements(fs) : IsValidFile(f) } }

\* a step in which the upload handler has built, or tried to build, an
\* index from a non-empty batch (the batch is uploaded_files')
BuildAttempt ==
    /\ pc \in {"idle", "rerun"}
    /\ uploaded_files' # << >>

BuildFailed ==
    /\ BuildAttempt
    /\ build_report'.kind # "success"

\* a build from a batch with a failing file or with no valid document
BadBatchBuild ==
    /\ BuildAttempt
    /\ (HasFailingFile(uploaded_files') \/ ~HasValidFile(uploaded_files'))

C3_FailedRunKeepsHistory ==
    (pc \in RunSteps /\ ret # "result") => chat_history = h0

\* a run that failed at its last fallible step, the sentiment analysis,
\* in a session whose history is not empty
C3_Witness ==
    /\ pc = "return"
    /\ ret = "None"
    /\ exc = "sentiment"
    /\ nGenerate = 1
    /\ Len(h0) > 0

(* C4: the index holds the chunks of the batch of the last successful build *)
(* and nothing else, and every source id a retrieval returns belongs to     *)
(* that batch: an earlier batch's chunks are replaced, never merged.        *)
C4_IndexOfLastBatchOnly ==
    /\ vector_store.built
          => Elements(vector_store.texts) = ExpectedChunks(last_batch)
    /\ (pc \in RunSteps /\ nRetrieve > 0)
          => Elements(sources) \subseteq
                 { f.name : f \in { g \in Elements(last_batch) : IsValidFile(g) } }

\* a retrieval after a second successful build: an earlier run of the
\* session returned a source id that this run's index no longer holds
C4_Witness ==
    /\ pc = "prompt"
    /\ nRetrieve = 1
    /\ sources # << >>
    /\ Len(h0) > 0
    /\ h0[1].sources # << >>
    /\ Elements(h0[1].sources) \cap NamesOf(last_batch) = {}

(* C5: without an index a run never fails at the retrieval step, asked for  *)
(* or not: retrieval is skipped, context and sources are empty, the prompt  *)
(* is composed with the empty context and the run reaches the generation    *)
(* call; a retrieval is issued only when asked for and an index exists.     *)
C5_NoIndexSkipsRetrieval ==
    /\ [](nRetrieve > 0 => (use_rag /\ vector_store.built))
    /\ []((pc = "return" /\ ~vector_store.built) => exc # "retrieve")
    /\ [][(pc = "retrieve" /\ ~vector_store.built)
             => /\ pc' = "prompt"
                /\ context' = ""
                /\ sources' = << >>
                /\ nRetrieve' = 0]_vars
    /\ [][(pc = "prompt" /\ ~vector_store.built
                         /\ writing_style \in StylePrompts)
             => /\ pc' = "generate"
                /\ prompt'.context = ""]_vars

\* retrieval was asked for, the session holds no index, and the run is at
\* the generation call with an empty context
C5_Witness ==
    /\ pc = "generate"
    /\ use_rag
    /\ ~vector_store.built
    /\ prompt.context = ""
    /\ sources = << >>
    /\ nRetrieve = 0

(* C6: the completion call is issued only after ollama.list() has answered  *)
(* and the model is in the catalog; a run stopped by either precondition    *)
(* reports it with its own message and issues no retrieval, no completion   *)
(* call and no further catalog call.                                        *)
C6_PreconditionsBeforeGenerate ==
    /\ nList <= 2 /\ nRetrieve <= 1 /\ nGenerate <= 1
    /\ (nGenerate > 0 \/ nRetrieve > 0)
          => (nList = 2 /\ "llama3.2:latest" \in available_models)
    /\ (pc = "return" /\ nList = 1)
          => /\ report \in {"Ollama server connection error",
                            "Ollama server error"}
             /\ nRetrieve = 0 /\ nGenerate = 0
    /\ (pc = "return" /\ nList = 2 /\ exc # "catalog"
                      /\ "llama3.2:latest" \notin available_models)
          => /\ report = "llama3.2:latest model not found"
             /\ nRetrieve = 0 /\ nGenerate = 0
    /\ (pc = "return" /\ report = "llama3.2:latest model not found")
          => "llama3.2:latest" \notin available_models
    /\ (pc = "return" /\ report \in {"Ollama server connection error",
                                     "Ollama server error"})
          => nList = 1

\* a run stopped because the model is missing, although retrieval was asked
\* for and an index exists
C6_Witness ==
    /\ pc = "return"
    /\ report = "llama3.2:latest model not found"
    /\ use_rag
    /\ vector_store.built
    /\ nRetrieve = 0
    /\ nGenerate = 0

(* C7: the history is append-only: it changes only when a successful run    *)
(* appends one entry at the end, after generation and sentiment analysis,   *)
(* or when the user clears it; builds and failed runs leave it alone.       *)
C7_HistoryAppendOnly ==
    /\ [][chat_history' # chat_history
            => \/ /\ pc = "sentiment"
                  /\ ret' = "result"
                  /\ nGenerate = 1
                  /\ response = "article"
                  /\ Len(chat_history') = Len(chat_history) + 1
                  /\ SubSeq(chat_history', 1, Len(chat_history)) = chat_history
                  /\ chat_history'[Len(chat_history')].sentiment
                         = sentiment_analysis'
                  /\ sentiment_analysis' # NoSentiment
               \/ /\ pc = "idle"
                  /\ pc' = "rerun"
                  /\ chat_history' = << >>]_vars
    /\ []((pc = "return" /\ ret = "result")
             => /\ Len(chat_history) = Len(h0) + 1
                /\ SubSeq(chat_history, 1, Len(h0)) = h0)

\* a successful run has appended a second entry that differs from the first
C7_Witness ==
    /\ pc = "return"
    /\ ret = "result"
    /\ Len(h0) = 1
    /\ Len(chat_history) = 2
    /\ chat_history[1] = h0[1]
    /\ chat_history[2] # chat_history[1]

(* C8: the source ids of a run, and those stored in its history entry, hold *)
(* every source id at most once.                                            *)
C8_SourcesDeduplicated ==
    /\ (pc = "return" /\ ret = "result") => NoDuplicates(sources)
    /\ \A i \in 1..Len(chat_history) : NoDuplicates(chat_history[i].sources)

(* C9: analyze_sentiment labels Positive iff polarity > 0, Negative iff     *)
(* polarity < 0, Neutral iff polarity = 0; Objective iff subjectivity < 0.3,*)
(* Subjective iff subjectivity > 0.7, Balanced otherwise (0.3 and 0.7       *)
(* included); one label of each kind for every input.                       *)
C9_SentimentThresholds ==
    pc = "analyzed"
        => /\ sentiment_analysis.sentiment \in {"Positive", "Negative", "Neutral"}
           /\ sentiment_analysis.tone \in {"Objective", "Balanced", "Subjective"}
           /\ sentiment_analysis.sentiment = "Positive" <=> blob.polarity > 0
           /\ sentiment_analysis.sentiment = "Negative" <=> blob.polarity < 0
           /\ sentiment_analysis.sentiment = "Neutral" <=> blob.polarity = 0
           /\ sentiment_analysis.tone = "Objective" <=> blob.subjectivity < 300
           /\ sentiment_analysis.tone = "Subjective" <=> blob.subjectivity > 700
           /\ sentiment_analysis.tone = "Balanced"
                  <=> (blob.subjectivity >= 300 /\ blob.subjectivity <= 700)

\* polarity exactly 0 and subjectivity exactly 0.3
C9_Witness ==
    /\ pc = "analyzed"
    /\ blob.polarity = 0
    /\ blob.subjectivity = 300
    /\ sentiment_analysis.sentiment = "Neutral"
    /\ sentiment_analysis.tone = "Balanced"

(* C10: whenever the session holds an index, it was built from exactly the  *)
(* files now in the uploader; with no file uploaded there is no index.      *)
C10_IndexMatchesUploads ==
    vector_store.built => last_batch = uploaded_files

============================================================================
